---- MODULE Spec2Model ----
(***************************************************************************)
(* Error-diffusion dithering of cmd/main.go.                               *)
(*                                                                         *)
(* The file holds two programs.  The color/mono program (ditherColor,      *)
(* ditherMono, extractChannel, ditherChannel) places the neighbour column  *)
(* at x+j-2; the standalone mono program (dither) places it at x+j-1.      *)
(* Both run the same loop, modelled here one statement group per action:   *)
(* the copy of the input, the quantization of the cell (x,y), and one      *)
(* action per kernel entry matrix[i][j].                                   *)
(*                                                                         *)
(* Arithmetic.  The deposit is computed in float64 as                      *)
(*   uint8(min(255, max(0, old + e*(w/divisor)))).                         *)
(* For every old in 0..255, e in -255..255 and every (w, divisor) of the   *)
(* kernels below the float64 result equals the exact rational result       *)
(* (checked exhaustively, with and without a fused multiply-add), so the   *)
(* model keeps the value as the exact fraction Num/Den.                    *)
(*                                                                         *)
(* image.Gray: GrayAt outside the rectangle yields 0 and SetGray outside   *)
(* the rectangle does nothing; rectangles start at (0,0).                  *)
(***************************************************************************)
EXTENDS Integers, Sequences, FiniteSets, TLC

\* ---------------------------------------------------------------- bounds
MaxW == 3
MaxH == 2
MaxCells == 6
MaxWideW == 5
MaxWideH == 3
MaxColorW == 2
MaxColorH == 2
MaxColorCells == 2

Samples == {0, 100, 128, 255}
WideSamples == {0, 50, 100, 127, 128, 150, 200, 255}
ColorSamples == {100, 200}

\* ------------------------------------------------------- kernel catalog
AtkinsonMatrix ==
  << <<0, 0, 1, 1>>, <<1, 1, 1, 0>>, <<0, 1, 0, 0>> >>

AtkinsonDivisor == 8

FloydSteinbergMatrixSkewed ==
  << <<0, 0, 7>>, <<3, 5, 2>> >>

FloydSteinbergMatrix ==
  << <<0, 0, 7>>, <<3, 5, 1>> >>

FloydSteinbergDivisor == 16

ShtukiMatrix ==
  << <<0, 0, 0, 8, 4>>, <<2, 4, 8, 4, 2>>, <<1, 2, 4, 2, 1>> >>

ShtukiDivisor == 42

SierraLiteMatrix ==
  << <<0, 0, 2>>, <<1, 1, 0>> >>

SierraLiteDivisor == 4

Catalog ==
  { [name |-> "atkinson", matrix |-> AtkinsonMatrix, divisor |-> AtkinsonDivisor],
    [name |-> "floyd_steinberg", matrix |-> FloydSteinbergMatrix, divisor |-> FloydSteinbergDivisor],
    [name |-> "shtuki", matrix |-> ShtukiMatrix, divisor |-> ShtukiDivisor],
    [name |-> "sierra_lite", matrix |-> SierraLiteMatrix, divisor |-> SierraLiteDivisor] }

\* Column subtracted from x+j: nx := x+j-2 in ditherMono and ditherChannel.
ColorMonoAnchor == 2

\* nx := x+j-1 in the standalone dither.
StandaloneAnchor == 1

NeighborColumnOneLeft(px, pj, a) ==
  px + pj - a - 1

NeighborColumn(px, pj, a) ==
  px + pj - a

\* ------------------------------------------------------ pure operations
findClosestPaletteColorInverted(pixel) ==
  IF pixel < 128 THEN 255 ELSE 0

findClosestPaletteColor(pixel) ==
  IF pixel < 128 THEN 0 ELSE 255

Cells(w, h) ==
  (0 .. (w - 1)) \X (0 .. (h - 1))

GrayAt(img, px, py) ==
  IF <<px, py>> \in DOMAIN img THEN img[<<px, py>>] ELSE 0

SetGray(img, px, py, v) ==
  IF <<px, py>> \in DOMAIN img THEN [img EXCEPT ![<<px, py>>] = v] ELSE img

InBoundsNoLowerX(px, py, w, h) ==
  px < w /\ py >= 0 /\ py < h

InBounds(px, py, w, h) ==
  px >= 0 /\ px < w /\ py >= 0 /\ py < h

\* old + e*(w/d) as the fraction Num/Den with Den > 0.
Den(d) ==
  IF d < 0 THEN -d ELSE d

Num(old, e, w, d) ==
  IF d < 0 THEN -(old * d + e * w) ELSE old * d + e * w

NewNeighborRounded(old, e, w, d) ==
  LET n == 2 * Num(old, e, w, d) + Den(d)
      m == 2 * Den(d)
  IN  IF n <= 0 THEN 0
      ELSE IF n >= 255 * m THEN 255
      ELSE n \div m

NewNeighbor(old, e, w, d) ==
  LET n == Num(old, e, w, d)
      m == Den(d)
  IN  IF n <= 0 THEN 0
      ELSE IF n >= 255 * m THEN 255
      ELSE n \div m

\* ------------------------------------------------------------- state
VARIABLES
  anchor,           \* 2 in the color/mono program, 1 in the standalone one
  matrix, divisor,  \* the kernel passed to the engine
  W, H,             \* bounds.Max.X, bounds.Max.Y
  channel,          \* the input buffer
  ditheredChannel,  \* the working buffer (grayImg in ditherMono and dither)
  pc,               \* position in the engine
  x, y, i, j,       \* loop counters
  oldPixel, newPixel, quantError,
  weight, nx, ny, oldNeighbor, newNeighbor,
  accessed,         \* coordinates the last step passed to GrayAt / SetGray
  exactSum,         \* sum of quantError*w over the deposits of this cell
  dropped,          \* nonzero weights of this cell that fell outside
  saturated,        \* some deposit of this cell hit 0 or 255
  cpc,              \* position in ditherColor
  img,              \* two input rasters <<img1, img2>>, cell -> <<R, G, B>>
  red, green, blue, \* the extracted channels, one per raster
  ditheredRed, ditheredGreen, ditheredBlue,
  ditheredImg       \* the combined rasters, cell -> <<R, G, B, A>>

vars ==
  << anchor, matrix, divisor, W, H, channel, ditheredChannel, pc, x, y, i, j,
     oldPixel, newPixel, quantError, weight, nx, ny, oldNeighbor, newNeighbor,
     accessed, exactSum, dropped, saturated,
     cpc, img, red, green, blue, ditheredRed, ditheredGreen, ditheredBlue,
     ditheredImg >>

colorVars ==
  << cpc, img, red, green, blue, ditheredRed, ditheredGreen, ditheredBlue,
     ditheredImg >>

engineVars ==
  << channel, ditheredChannel, pc, x, y, i, j,
     oldPixel, newPixel, quantError, weight, nx, ny, oldNeighbor, newNeighbor,
     accessed, exactSum, dropped, saturated >>

kernelVars ==
  << anchor, matrix, divisor, W, H, channel >>

cellVars ==
  << oldPixel, newPixel, quantError >>

depositVars ==
  << weight, nx, ny, oldNeighbor, newNeighbor >>

ghostVars ==
  << exactSum, dropped, saturated >>

\* ------------------------------------------------------------- Init
InitLocals ==
  /\ x = 0 /\ y = 0 /\ i = 0 /\ j = 0
  /\ oldPixel = 0 /\ newPixel = 0 /\ quantError = 0
  /\ weight = 0 /\ nx = 0 /\ ny = 0 /\ oldNeighbor = 0 /\ newNeighbor = 0
  /\ accessed = {}
  /\ exactSum = 0 /\ dropped = 0 /\ saturated = FALSE

NoPlanes ==
  << << >>, << >> >>

InitColorIdle ==
  /\ cpc = "idle"
  /\ img = NoPlanes
  /\ red = NoPlanes /\ green = NoPlanes /\ blue = NoPlanes
  /\ ditheredRed = NoPlanes /\ ditheredGreen = NoPlanes /\ ditheredBlue = NoPlanes
  /\ ditheredImg = NoPlanes

AllBuffers(w, h) ==
  [Cells(w, h) -> Samples]

UniformBuffers(w, h) ==
  { [c \in Cells(w, h) |-> v] : v \in WideSamples }

InitEngine(a, kernels, widths, heights, cells, uniform) ==
  /\ anchor = a
  /\ \E k \in kernels : matrix = k.matrix /\ divisor = k.divisor
  /\ W \in widths /\ H \in heights
  /\ W * H <= cells
  /\ channel \in (IF uniform THEN UniformBuffers(W, H) ELSE AllBuffers(W, H))
  /\ ditheredChannel = [c \in Cells(W, H) |-> 0]
  /\ pc = "copy"
  /\ InitLocals
  /\ InitColorIdle

Init ==
  InitEngine(ColorMonoAnchor, Catalog, 1 .. MaxW, 1 .. MaxH, MaxCells, FALSE)

InitStandalone ==
  InitEngine(StandaloneAnchor, Catalog, 1 .. MaxW, 1 .. MaxH, MaxCells, FALSE)

InitWide ==
  InitEngine(ColorMonoAnchor, Catalog, 1 .. MaxWideW, 1 .. MaxWideH,
             MaxWideW * MaxWideH, TRUE)

\* ------------------------------------------------------------ actions
\* ditherChannel: copy the original channel into the new image.
Copy ==
  /\ pc = "copy"
  /\ ditheredChannel' = [c \in Cells(W, H) |-> GrayAt(channel, c[1], c[2])]
  /\ accessed' = Cells(W, H)
  /\ pc' = IF W > 0 /\ H > 0 THEN "quantize" ELSE "done"
  /\ UNCHANGED << kernelVars, x, y, i, j, cellVars, depositVars, ghostVars >>
  /\ UNCHANGED colorVars

\* oldPixel, newPixel, SetGray(x, y, newPixel), quantError.
Quantize ==
  /\ pc = "quantize"
  /\ oldPixel' = GrayAt(ditheredChannel, x, y)
  /\ newPixel' = findClosestPaletteColor(oldPixel')
  /\ ditheredChannel' = SetGray(ditheredChannel, x, y, newPixel')
  /\ quantError' = oldPixel' - newPixel'
  /\ accessed' = {<<x, y>>}
  /\ i' = 0 /\ j' = 0
  /\ exactSum' = 0 /\ dropped' = 0 /\ saturated' = FALSE
  /\ pc' = "distribute"
  /\ UNCHANGED << kernelVars, x, y, depositVars >>
  /\ UNCHANGED colorVars

\* j++ of the inner loop, i++ of the outer one.
StepEntry ==
  IF j + 1 < Len(matrix[i + 1])
    THEN i' = i /\ j' = j + 1
    ELSE i' = i + 1 /\ j' = 0

AtEntry ==
  pc = "distribute" /\ i < Len(matrix)

\* matrix[i][j] == 0
SkipZero ==
  /\ AtEntry
  /\ matrix[i + 1][j + 1] = 0
  /\ weight' = 0
  /\ accessed' = {}
  /\ StepEntry
  /\ UNCHANGED << kernelVars, ditheredChannel, pc, x, y, cellVars,
                  nx, ny, oldNeighbor, newNeighbor, ghostVars >>
  /\ UNCHANGED colorVars

\* matrix[i][j] != 0 and the bounds test fails.
SkipOutside ==
  /\ AtEntry
  /\ matrix[i + 1][j + 1] # 0
  /\ weight' = matrix[i + 1][j + 1]
  /\ nx' = NeighborColumn(x, j, anchor) /\ ny' = y + i
  /\ ~ InBounds(nx', ny', W, H)
  /\ accessed' = {}
  /\ dropped' = dropped + 1
  /\ StepEntry
  /\ UNCHANGED << kernelVars, ditheredChannel, pc, x, y, cellVars,
                  oldNeighbor, newNeighbor, exactSum, saturated >>
  /\ UNCHANGED colorVars

\* matrix[i][j] != 0 and the bounds test holds: read, add, clamp, store.
Deposit ==
  /\ AtEntry
  /\ matrix[i + 1][j + 1] # 0
  /\ weight' = matrix[i + 1][j + 1]
  /\ nx' = NeighborColumn(x, j, anchor) /\ ny' = y + i
  /\ InBounds(nx', ny', W, H)
  /\ oldNeighbor' = GrayAt(ditheredChannel, nx', ny')
  /\ newNeighbor' = NewNeighbor(oldNeighbor', quantError, weight', divisor)
  /\ ditheredChannel' = SetGray(ditheredChannel, nx', ny', newNeighbor')
  /\ accessed' = {<<nx', ny'>>}
  /\ exactSum' = exactSum + quantError * weight'
  /\ saturated' = (saturated \/ Num(oldNeighbor', quantError, weight', divisor) < 0
                             \/ Num(oldNeighbor', quantError, weight', divisor) > 255 * Den(divisor))
  /\ StepEntry
  /\ UNCHANGED << kernelVars, pc, x, y, cellVars, dropped >>
  /\ UNCHANGED colorVars

LastCell ==
  x = W - 1 /\ y = H - 1

\* x++ / y++ of the scan.
NextPixel ==
  /\ pc = "distribute" /\ i = Len(matrix)
  /\ ~ LastCell
  /\ IF x + 1 < W THEN x' = x + 1 /\ y' = y ELSE x' = 0 /\ y' = y + 1
  /\ pc' = "quantize"
  /\ accessed' = {}
  /\ UNCHANGED << kernelVars, ditheredChannel, i, j, cellVars, depositVars, ghostVars >>
  /\ UNCHANGED colorVars

\* return ditheredChannel
Finish ==
  /\ pc = "distribute" /\ i = Len(matrix)
  /\ LastCell
  /\ pc' = "done"
  /\ accessed' = {}
  /\ UNCHANGED << kernelVars, ditheredChannel, x, y, i, j, cellVars, depositVars, ghostVars >>
  /\ UNCHANGED colorVars

Next ==
  \/ Copy
  \/ Quantize
  \/ SkipZero
  \/ SkipOutside
  \/ Deposit
  \/ NextPixel
  \/ Finish

Spec == Init /\ [][Next]_vars

SpecStandalone == InitStandalone /\ [][Next]_vars

SpecWide == InitWide /\ [][Next]_vars

\* ------------------------------------------------------------ typing
TypeOK ==
  /\ anchor \in {1, 2}
  /\ W \in Nat /\ H \in Nat
  /\ pc # "idle" => DOMAIN ditheredChannel = Cells(W, H)
  /\ \A c \in DOMAIN ditheredChannel : ditheredChannel[c] \in 0 .. 255
  /\ pc \in {"idle", "copy", "quantize", "distribute", "done"}
  /\ quantError \in -127 .. 127

\* ------------------------------------------------ the pass as a whole
\* The kernel loop of one cell, from entry (ci, cj) on.
RECURSIVE distributeError(_, _, _, _, _, _, _)
distributeError(g, k, cx, cy, e, ci, cj) ==
  IF ci >= Len(k.matrix) THEN g
  ELSE
    LET w == k.matrix[ci + 1][cj + 1]
        px == NeighborColumn(cx, cj, k.anchor)
        py == cy + ci
        g2 == IF w # 0 /\ InBounds(px, py, k.W, k.H)
                THEN SetGray(g, px, py,
                             NewNeighbor(GrayAt(g, px, py), e, w, k.divisor))
                ELSE g
    IN  IF cj + 1 < Len(k.matrix[ci + 1])
          THEN distributeError(g2, k, cx, cy, e, ci, cj + 1)
          ELSE distributeError(g2, k, cx, cy, e, ci + 1, 0)

\* The scan, from the cell of row-major index idx on.
RECURSIVE scanFrom(_, _, _)
scanFrom(g, k, idx) ==
  IF idx >= k.W * k.H THEN g
  ELSE
    LET cx == idx % k.W
        cy == idx \div k.W
        old == GrayAt(g, cx, cy)
        new == findClosestPaletteColor(old)
    IN  scanFrom(distributeError(SetGray(g, cx, cy, new), k, cx, cy, old - new, 0, 0),
                 k, idx + 1)

ditherChannel(chan, k) ==
  scanFrom([c \in Cells(k.W, k.H) |-> GrayAt(chan, c[1], c[2])], k, 0)

Engine ==
  [matrix |-> matrix, divisor |-> divisor, anchor |-> anchor, W |-> W, H |-> H]

\* The actions of the engine, run to "done", compute ditherChannel.
StepsAgreeWithPass ==
  pc = "done" => ditheredChannel = ditherChannel(channel, Engine)

\* ------------------------------------------------------- ditherColor
\* img.At(x, y).RGBA() of an opaque 8-bit pixel: 16-bit samples.
RGBA(p) ==
  << p[1] * 257, p[2] * 257, p[3] * 257, 65535 >>

extractChannelGreenFromRed(image, channelIndex) ==
  [c \in DOMAIN image |->
     (RGBA(image[c])[IF channelIndex = 1 THEN 1 ELSE channelIndex + 1] \div 256) % 256]

\* uint8(r >> 8), uint8(g >> 8), uint8(b >> 8)
extractChannel(image, channelIndex) ==
  [c \in DOMAIN image |-> (RGBA(image[c])[channelIndex + 1] \div 256) % 256]

Pixels ==
  ColorSamples \X ColorSamples \X ColorSamples

\* Two rasters of equal size that differ in at most one sample.
InitColor ==
  /\ anchor = ColorMonoAnchor
  /\ \E k \in Catalog : matrix = k.matrix /\ divisor = k.divisor
  /\ W \in 1 .. MaxColorW /\ H \in 1 .. MaxColorH
  /\ W * H <= MaxColorCells
  /\ \E a \in [Cells(W, H) -> Pixels], p \in Cells(W, H), o \in 1 .. 3, u \in ColorSamples :
       img = << a, [a EXCEPT ![p][o] = u] >>
  /\ cpc = "start"
  /\ red = NoPlanes /\ green = NoPlanes /\ blue = NoPlanes
  /\ ditheredRed = NoPlanes /\ ditheredGreen = NoPlanes /\ ditheredBlue = NoPlanes
  /\ ditheredImg = NoPlanes
  /\ pc = "idle"
  /\ channel = << >> /\ ditheredChannel = << >>
  /\ InitLocals

ExtractChannels ==
  /\ cpc = "start"
  /\ red' = << extractChannel(img[1], 0), extractChannel(img[2], 0) >>
  /\ green' = << extractChannel(img[1], 1), extractChannel(img[2], 1) >>
  /\ blue' = << extractChannel(img[1], 2), extractChannel(img[2], 2) >>
  /\ cpc' = "extracted"
  /\ UNCHANGED << kernelVars, engineVars, img, ditheredRed, ditheredGreen,
                  ditheredBlue, ditheredImg >>

DitherRed ==
  /\ cpc = "extracted"
  /\ ditheredRed' = << ditherChannel(red[1], Engine), ditherChannel(red[2], Engine) >>
  /\ cpc' = "red"
  /\ UNCHANGED << kernelVars, engineVars, img, red, green, blue, ditheredGreen,
                  ditheredBlue, ditheredImg >>

DitherGreen ==
  /\ cpc = "red"
  /\ ditheredGreen' = << ditherChannel(green[1], Engine), ditherChannel(green[2], Engine) >>
  /\ cpc' = "green"
  /\ UNCHANGED << kernelVars, engineVars, img, red, green, blue, ditheredRed,
                  ditheredBlue, ditheredImg >>

DitherBlue ==
  /\ cpc = "green"
  /\ ditheredBlue' = << ditherChannel(blue[1], Engine), ditherChannel(blue[2], Engine) >>
  /\ cpc' = "blue"
  /\ UNCHANGED << kernelVars, engineVars, img, red, green, blue, ditheredRed,
                  ditheredGreen, ditheredImg >>

\* SetRGBA(x, y, color.RGBA{R: r, G: g, B: b, A: 255})
Combine ==
  /\ cpc = "blue"
  /\ ditheredImg' =
       [r \in {1, 2} |->
          [c \in Cells(W, H) |->
             << GrayAt(ditheredRed[r], c[1], c[2]),
                GrayAt(ditheredGreen[r], c[1], c[2]),
                GrayAt(ditheredBlue[r], c[1], c[2]),
                255 >>]]
  /\ cpc' = "done"
  /\ UNCHANGED << kernelVars, engineVars, img, red, green, blue, ditheredRed,
                  ditheredGreen, ditheredBlue >>

NextColor ==
  \/ ExtractChannels
  \/ DitherRed
  \/ DitherGreen
  \/ DitherBlue
  \/ Combine

SpecColor == InitColor /\ [][NextColor]_vars

\* ------------------------------------------- malformed configurations
ZeroMatrix ==
  << <<0, 0, 0>>, <<0, 0, 0>> >>

LeftOfAnchorMatrix ==
  << <<7, 0, 0>>, <<3, 5, 1>> >>

MalformedKernels ==
  { [name |-> "all_zero", matrix |-> ZeroMatrix, divisor |-> 16],
    [name |-> "negative_divisor", matrix |-> FloydSteinbergMatrix, divisor |-> -16],
    [name |-> "left_of_anchor", matrix |-> LeftOfAnchorMatrix, divisor |-> 16] }

NoNonzeroWeight(m) ==
  \A r \in 1 .. Len(m) : \A c \in 1 .. Len(m[r]) : m[r][c] = 0

AnchorRowAllLeft(m, a) ==
  /\ \E c \in 1 .. Len(m[1]) : m[1][c] # 0
  /\ \A c \in 1 .. Len(m[1]) : m[1][c] # 0 => c - 1 < a

InvalidConfig ==
  \/ NoNonzeroWeight(matrix)
  \/ divisor <= 0
  \/ AnchorRowAllLeft(matrix, anchor)
  \/ W = 0
  \/ H = 0

InitConfig ==
  /\ InitEngine(ColorMonoAnchor, Catalog \cup MalformedKernels,
                0 .. MaxW, 0 .. MaxH, MaxCells, FALSE)
  /\ InvalidConfig

SpecConfig == InitConfig /\ [][Next]_vars

\* ------------------------------------------------------------ helpers
Index(c) ==
  c[2] * W + c[1]

\* Cells whose quantized value has been written.
Quantized ==
  IF pc = "done" THEN Cells(W, H)
  ELSE IF pc = "copy" THEN {}
  ELSE { c \in Cells(W, H) :
           \/ Index(c) < Index(<<x, y>>)
           \/ Index(c) = Index(<<x, y>>) /\ pc = "distribute" }

\* The last step was Deposit: Quantize leaves (i,j) = (0,0), the skips and
\* the scan steps leave accessed empty.
Deposited ==
  pc = "distribute" /\ accessed # {} /\ <<i, j>> # <<0, 0>>

StrictlyLater(px, py) ==
  py > y \/ (py = y /\ px > x)

DepositTargetsLater ==
  Deposited => StrictlyLater(nx, ny)

QuantizedStable ==
  \A c \in Quantized : ditheredChannel'[c] = ditheredChannel[c]

OutputBilevel ==
  pc = "done" => \A c \in Cells(W, H) : ditheredChannel[c] \in {0, 255}

CellDone ==
  pc = "distribute" /\ i = Len(matrix)

\* ------------------------------------------------------------- claims

\* C1: when the color/mono engine has visited all cells, every sample of
\* the returned buffer is 0 or 255.
C1_OutputBilevel ==
  pc = "done" => \A c \in Cells(W, H) : ditheredChannel[c] \in {0, 255}

\* C2: in the color/mono engine a deposit only targets a cell strictly
\* later in row-major order, so a quantized cell never changes again.
C2_DepositsOnlyLater ==
  [] DepositTargetsLater /\ [][QuantizedStable]_vars

\* C3: floyd_steinberg on the 2x1 buffer [100,100]: (0,0) becomes 0 with
\* error 100, the weight 7 lands on (1,0), which reads 143 when it is
\* quantized, and the result is [0,255].
C3_FloydSteinbergScenario ==
  ( /\ matrix = FloydSteinbergMatrix /\ divisor = FloydSteinbergDivisor
    /\ W = 2 /\ H = 1
    /\ channel = [c \in Cells(2, 1) |-> 100] )
  =>
  /\ (pc = "distribute" /\ x = 0) => (newPixel = 0 /\ quantError = 100)
  /\ (Deposited /\ x = 0 /\ weight = 7) => (nx = 1 /\ ny = 0 /\ newNeighbor = 143)
  /\ (pc = "distribute" /\ x = 1) => oldPixel = 143
  /\ pc = "done" => ditheredChannel = (<<0, 0>> :> 0 @@ <<1, 0>> :> 255)

\* C4: an invalid configuration (no nonzero weight, divisor <= 0, anchor-row
\* weights all left of the anchor, zero-area buffer) is rejected before any
\* cell is quantized and no buffer is returned.
C4_InvalidConfigRejected ==
  InvalidConfig => pc \notin {"distribute", "done"}

\* C5: every coordinate handed to GrayAt / SetGray lies inside the buffer;
\* a weight whose neighbour is outside is dropped without an access.
C5_AccessInBounds ==
  /\ accessed \subseteq Cells(W, H)
  /\ Deposited => InBounds(nx, ny, W, H)

C5_Witness ==
  /\ pc = "done" /\ W = 1 /\ H = 1
  /\ matrix = ShtukiMatrix /\ dropped > 0

\* C6: a buffer that is uniformly 0 or uniformly 255 comes back unchanged:
\* every quantization error is 0 and no deposit changes a cell.
C6_UniformUnchanged ==
  ( /\ pc # "copy"
    /\ \E v \in {0, 255} : \A c \in Cells(W, H) : channel[c] = v )
  => (ditheredChannel = channel /\ quantError = 0)

C6_Witness ==
  /\ pc = "done" /\ W >= 2 /\ H >= 2
  /\ \A c \in Cells(W, H) : channel[c] = 255 /\ ditheredChannel[c] = 255

\* C7: in color mode each output channel depends only on the same input
\* channel and the kernel: rasters that agree on a channel give outputs that
\* agree on it, and a raster with R=G=B everywhere gives R=G=B everywhere.
C7_ChannelsIndependent ==
  cpc = "done" =>
    /\ \A ch \in 1 .. 3 :
         (\A c \in Cells(W, H) : img[1][c][ch] = img[2][c][ch])
         => (\A c \in Cells(W, H) : ditheredImg[1][c][ch] = ditheredImg[2][c][ch])
    /\ \A r \in {1, 2} :
         (\A c \in Cells(W, H) : img[r][c][1] = img[r][c][2] /\ img[r][c][2] = img[r][c][3])
         => (\A c \in Cells(W, H) :
               /\ ditheredImg[r][c][1] = ditheredImg[r][c][2]
               /\ ditheredImg[r][c][2] = ditheredImg[r][c][3])

C7_Witness ==
  /\ cpc = "done" /\ W * H >= 2
  /\ \A c \in Cells(W, H) : img[1][c][1] = img[1][c][2] /\ img[1][c][2] = img[1][c][3]
  /\ \E c \in Cells(W, H) : img[1][c][1] # img[2][c][1]
  /\ ditheredImg[1] # ditheredImg[2]
  /\ \E c, d \in Cells(W, H) : ditheredImg[1][c][1] # ditheredImg[1][d][1]

\* C8: when every kernel neighbour of the cell is in bounds and no deposit
\* saturates, the exact deposits e*w/divisor sum to e.
C8_ErrorConserved ==
  (CellDone /\ dropped = 0 /\ ~ saturated)
  => exactSum = quantError * divisor

\* C8 amended: the exact deposits sum to e for floyd_steinberg, shtuki and
\* sierra_lite, and to 6e/8 for atkinson.
C8_ErrorConservedButAtkinson ==
  (CellDone /\ dropped = 0 /\ ~ saturated)
  => IF matrix = AtkinsonMatrix
       THEN 4 * exactSum = 3 * quantError * divisor
       ELSE exactSum = quantError * divisor

C8_Witness ==
  /\ CellDone /\ dropped = 0 /\ ~ saturated
  /\ quantError # 0
  /\ matrix = FloydSteinbergMatrix

\* C9: a deposit stores old + e*w/divisor saturated to [0,255] with the
\* fraction discarded, so every working cell is an integer in 0..255;
\* old = 100, e = 100, w = 7, divisor = 16 stores 143.
C9_DepositSaturatesThenTruncates ==
  /\ \A c \in Cells(W, H) : ditheredChannel[c] \in 0 .. 255
  /\ NewNeighbor(100, 100, 7, 16) = 143
  /\ Deposited =>
       LET n == oldNeighbor * divisor + quantError * weight
       IN  /\ ditheredChannel[<<nx, ny>>] = newNeighbor
           /\ n <= 0 => newNeighbor = 0
           /\ n >= 255 * divisor => newNeighbor = 255
           /\ (0 < n /\ n < 255 * divisor) =>
                (newNeighbor * divisor <= n /\ n < (newNeighbor + 1) * divisor)

C9_Witness ==
  /\ Deposited
  /\ LET n == oldNeighbor * divisor + quantError * weight
     IN  0 < n /\ n < 255 * divisor /\ 2 * (n % divisor) >= divisor

\* C10: in the standalone engine (nx = x+j-1) every deposit targets a cell
\* strictly later in row-major order, a quantized cell is never rewritten,
\* and the returned buffer holds only 0 and 255.
C10_StandaloneDepositsOnlyLater ==
  [] (DepositTargetsLater /\ OutputBilevel) /\ [][QuantizedStable]_vars

C10_Witness ==
  /\ pc = "done" /\ W >= 2 /\ H >= 2
  /\ matrix = AtkinsonMatrix
  /\ \E c \in Cells(W, H) : channel[c] = 100 /\ ditheredChannel[c] = 255

====
